---------------------------- MODULE Spec2Model ----------------------------
(***************************************************************************)
(* A model of services/pdf-converter/converter.py: the text-box flattener  *)
(* (flatten_textboxes) and its caller pdf_to_docx, the raw-XML text        *)
(* replacer (replace_text_in_docx), the PDF text replacer                  *)
(* (replace_text_in_pdf) and the Base-14 font classifier                   *)
(* (map_to_base14_font).  Every call is a synchronous bytes-in / bytes-out *)
(* transformation: a behaviour is one call, from its arguments to its      *)
(* return value or to the exception it raises.                             *)
(***************************************************************************)
EXTENDS Integers, Sequences, FiniteSets, TLC

VARIABLES
    call,                 \* the function that was called
    pc,                   \* position of the running call
    \* ---- flatten_textboxes ----
    docx_bytes,           \* the input package (argument)
    body,                 \* list(body): the parsed body's children, or NoBody
    idx,                  \* index of the next body child of the for loop
    seen_texts,           \* set of extracted texts already kept
    new_body_children,    \* the list being built
    paragraphs_extracted,
    textboxes_removed,
    duplicates_removed,
    result,               \* the returned package / bytes, Null while running
    \* ---- replace_text_in_docx / replace_text_in_pdf ----
    replacements,         \* the mapping, in insertion order: <<[old, new], ...>>
    key,                  \* index of the next pair of replacements.items()
    document_xml,         \* the document text being rewritten (a token sequence)
    total_replacements,
    pdf_bytes,            \* the input PDF (argument)
    doc,                  \* the opened PDF: a sequence of pages
    page_num,             \* index of the page of the for loop
    text_instances,       \* the boxes page.search_for returned, not yet handled
    page_log,             \* the page operations performed, in order
    \* ---- map_to_base14_font ----
    font_name,
    flags,
    \* ---- pdf_to_docx ----
    caller,               \* the function whose call is waiting for this one
    exc                   \* the exception raised (bound to e once caught)

flatVars == <<docx_bytes, body, idx, seen_texts, new_body_children,
              paragraphs_extracted, textboxes_removed, duplicates_removed>>
replVars == <<replacements, key, document_xml, total_replacements>>
pdfVars  == <<pdf_bytes, doc, page_num, text_instances, page_log>>
fontVars == <<font_name, flags>>
convVars == <<caller, exc>>
vars == <<call, pc, result, flatVars, replVars, pdfVars, fontVars, convVars>>

Null == "null"

-----------------------------------------------------------------------------
(* Strings *)

\* s contains sub as a substring (Python: sub in s)
Contains(s, sub) ==
    \E i \in 1..(Len(s) - Len(sub) + 1) : SubSeq(s, i, i + Len(sub) - 1) = sub

\* index of the first occurrence of sub in s, 0 when there is none
FirstIndex(s, sub) ==
    IF Contains(s, sub)
    THEN CHOOSE i \in 1..(Len(s) - Len(sub) + 1) :
            /\ SubSeq(s, i, i + Len(sub) - 1) = sub
            /\ \A j \in 1..(i - 1) : SubSeq(s, j, j + Len(sub) - 1) # sub
    ELSE 0

LowerChar(c) ==
    CASE c = "A" -> "a" [] c = "B" -> "b" [] c = "C" -> "c" [] c = "D" -> "d"
      [] c = "E" -> "e" [] c = "F" -> "f" [] c = "G" -> "g" [] c = "H" -> "h"
      [] c = "I" -> "i" [] c = "J" -> "j" [] c = "K" -> "k" [] c = "L" -> "l"
      [] c = "M" -> "m" [] c = "N" -> "n" [] c = "O" -> "o" [] c = "P" -> "p"
      [] c = "Q" -> "q" [] c = "R" -> "r" [] c = "S" -> "s" [] c = "T" -> "t"
      [] c = "U" -> "u" [] c = "V" -> "v" [] c = "W" -> "w" [] c = "X" -> "x"
      [] c = "Y" -> "y" [] c = "Z" -> "z" [] OTHER -> c

RECURSIVE Lower(_)
\* str.lower()
Lower(s) ==
    IF s = "" THEN "" ELSE LowerChar(SubSeq(s, 1, 1)) \o Lower(SubSeq(s, 2, Len(s)))

-----------------------------------------------------------------------------
(* map_to_base14_font *)

\* flags & (2^bit) is non-zero
FlagBit(f, bit) == (f \div (2 ^ bit)) % 2 = 1

is_times(font_lower) ==
    \E x \in {"times", "tiro", "serif", "roman", "georgia", "palatino", "cambria"} :
        Contains(font_lower, x)

is_courier(font_lower) ==
    \E x \in {"courier", "cour", "mono", "consola", "menlo", "fixed"} :
        Contains(font_lower, x)

is_symbol(font_lower) ==
    \E x \in {"symbol", "symb"} : Contains(font_lower, x)

is_zapf(font_lower) ==
    \E x \in {"zapf", "dingbat", "zadb"} : Contains(font_lower, x)

is_bold_wrong(font_lower, f) ==
    \/ Contains(font_lower, "bold")
    \/ Contains(font_lower, "black")
    \/ Contains(font_lower, "heavy")
    \/ FlagBit(f, 3)

is_bold(font_lower, f) ==
    \/ Contains(font_lower, "bold")
    \/ Contains(font_lower, "black")
    \/ Contains(font_lower, "heavy")
    \/ FlagBit(f, 4)

is_italic(font_lower, f) ==
    \/ Contains(font_lower, "italic")
    \/ Contains(font_lower, "oblique")
    \/ FlagBit(f, 1)

map_to_base14_font(name, f) ==
    LET font_lower == Lower(name)
        b  == is_bold(font_lower, f)
        it == is_italic(font_lower, f)
    IN  IF is_symbol(font_lower) THEN "symb"
        ELSE IF is_zapf(font_lower) THEN "zadb"
        ELSE IF is_courier(font_lower) THEN
            (IF b /\ it THEN "cobi" ELSE IF b THEN "cobo"
             ELSE IF it THEN "coit" ELSE "cour")
        ELSE IF is_times(font_lower) THEN
            (IF b /\ it THEN "tibi" ELSE IF b THEN "tibo"
             ELSE IF it THEN "tiit" ELSE "tiro")
        ELSE
            (IF b /\ it THEN "hebi" ELSE IF b THEN "hebo"
             ELSE IF it THEN "heit" ELSE "helv")

-----------------------------------------------------------------------------
(* The document tree.  An element is [id, tag, text, kids]: tag is the local *)
(* name (p, txbxContent, tbl, sectPr), text the concatenated content of the *)
(* w:t leaves the element holds before its child elements, kids the child   *)
(* elements in document order (the drawing wrappers around a txbxContent    *)
(* are left out).  id is the identity of a body child of the input (its     *)
(* position, from 1); every other element, and every copy, has id 0.        *)

MaxBody == 3            \* body children of an input document

Elem(tag, text, kids) == [id |-> 0, tag |-> tag, text |-> text, kids |-> kids]
P(text, kids) == Elem("p", text, kids)
Txbx(kids)    == Elem("txbxContent", "", kids)
Tbl(text)     == Elem("tbl", text, <<>>)
SectPr        == Elem("sectPr", "", <<>>)

\* The shapes a body child of an input document is drawn from.
BodyChildShapes ==
    { P("a", <<>>), P(" a", <<>>), P("b", <<>>), P("", <<>>),
      Tbl("a"), SectPr,
      P("", << Txbx(<< P("a", <<>>), P("b ", <<>>) >>) >>),
      P("", << Txbx(<< P("a", <<>>) >>), Txbx(<< P("a", <<>>), P("", <<>>) >>) >>),
      P("b", << Txbx(<<>>) >>),
      P("", << Txbx(<< Tbl("a") >>) >>),
      P("", << Txbx(<< P("b", << Txbx(<< P("a", <<>>) >>) >>) >>) >>) }

Bodies ==
    UNION { { [i \in 1..n |-> [f[i] EXCEPT !.id = i]] : f \in [1..n -> BodyChildShapes] }
            : n \in 0..MaxBody }

RECURSIVE LStrip(_)
LStrip(s) == IF s # "" /\ SubSeq(s, 1, 1) = " " THEN LStrip(SubSeq(s, 2, Len(s))) ELSE s

RECURSIVE RStrip(_)
RStrip(s) ==
    IF s # "" /\ SubSeq(s, Len(s), Len(s)) = " " THEN RStrip(SubSeq(s, 1, Len(s) - 1)) ELSE s

\* str.strip()
Strip(s) == RStrip(LStrip(s))

RECURSIVE IterText(_)
\* ''.join(t.text for t in el.iter(w:t)): the text of every leaf, in document order
IterText(el) ==
    LET RECURSIVE Join(_, _)
        Join(ks, i) == IF i > Len(ks) THEN "" ELSE IterText(ks[i]) \o Join(ks, i + 1)
    IN  el.text \o Join(el.kids, 1)

get_paragraph_text(para) == Strip(IterText(para))

RECURSIVE Descendants(_)
\* the proper descendants of el, depth first, in document order
Descendants(el) ==
    LET RECURSIVE Walk(_, _)
        Walk(ks, i) ==
            IF i > Len(ks) THEN <<>>
            ELSE <<ks[i]>> \o Descendants(ks[i]) \o Walk(ks, i + 1)
    IN  Walk(el.kids, 1)

IsTxbx(e) == e.tag = "txbxContent"
IsP(e) == e.tag = "p"
IsSectPr(e) == e.tag = "sectPr"

\* child.findall('.//w:txbxContent')
FindAllTxbx(child) == SelectSeq(Descendants(child), IsTxbx)

\* txbx_content.findall('w:p'): the direct child paragraphs
FindParas(txbx_content) == SelectSeq(txbx_content.kids, IsP)

RECURSIVE ParasOfBoxes(_)
\* the (txbx_content, para) pairs of the two nested for loops, in their order
ParasOfBoxes(txbx_contents) ==
    IF txbx_contents = <<>> THEN <<>>
    ELSE FindParas(Head(txbx_contents)) \o ParasOfBoxes(Tail(txbx_contents))

\* ET.fromstring(ET.tostring(para)): a new element with the same content
ClonePara(para) == [para EXCEPT !.id = 0]

-----------------------------------------------------------------------------
(* The package.  A package is the sequence of its entries [name, data,      *)
(* compress_type].  The data of word/document.xml is the XML text           *)
(* [form, has_body, children]: form "et" is the exact text that             *)
(* ET.tostring plus the declaration of line 164 give for the tree, "other"  *)
(* any other text of the same tree (another declaration, other quoting,     *)
(* other prefixes); the data of another entry is an opaque blob.            *)

DOCUMENT_XML == "word/document.xml"

Entry(name, data, ct) == [name |-> name, data |-> data, compress_type |-> ct]

XmlText(form, has_body, children) ==
    [form |-> form, has_body |-> has_body, children |-> children]

\* a package with a document entry between two others
DocPackage(form, ct, has_body, children) ==
    << Entry("[Content_Types].xml", "types-blob", ct),
       Entry(DOCUMENT_XML, XmlText(form, has_body, children), ct),
       Entry("word/styles.xml", "styles-blob", ct) >>

\* bytes that are not an archive: one raw blob, no entry
NotAZip == << Entry("", "not-an-archive", "none") >>

\* the data of an entry whose stored CRC does not match (read raises BadZipFile)
Damaged == "damaged-blob"

\* a package whose last entry cannot be read
DamagedPackage(children) ==
    << Entry("[Content_Types].xml", "types-blob", "deflated"),
       Entry(DOCUMENT_XML, XmlText("et", TRUE, children), "deflated"),
       Entry("word/styles.xml", Damaged, "deflated") >>

FlattenInputs ==
    { DocPackage(v[1], v[2], TRUE, b) :
        v \in { <<"et", "deflated">>, <<"other", "stored">> }, b \in Bodies }
    \cup { DocPackage("et", "deflated", FALSE, <<>>) }
    \cup { << Entry("[Content_Types].xml", "types-blob", "deflated"),
              Entry("word/styles.xml", "styles-blob", "deflated") >> }
    \cup { NotAZip }
    \cup { DocPackage("malformed", "deflated", FALSE, <<>>) }
    \cup { DamagedPackage(b) : b \in { c \in Bodies : Len(c) <= 1 } }

\* zipfile.ZipFile(io.BytesIO(docx_bytes), 'r') succeeds
IsZipFile(bytes) == \A i \in 1..Len(bytes) : bytes[i].compress_type # "none"

\* ET.fromstring(xml) succeeds
WellFormed(xml) == xml.form # "malformed"

\* docx_zip.namelist()
namelist(zip) == [i \in 1..Len(zip) |-> zip[i].name]

HasEntry(zip, name) == \E i \in 1..Len(zip) : zip[i].name = name

\* docx_zip.read(name): the data of the last entry of that name
ZipRead(zip, name) ==
    LET i == CHOOSE j \in 1..Len(zip) :
                 /\ zip[j].name = name
                 /\ \A l \in (j + 1)..Len(zip) : zip[l].name # name
    IN  zip[i].data

\* ET.fromstring: the tree of an XML text
ParseXml(xml) == [has_body |-> xml.has_body, children |-> xml.children]

\* ET.tostring(root, encoding='unicode') after the declaration (lines 162-165)
SerializeXml(root) == XmlText("et", root.has_body, root.children)

\* The archive written by lines 157-170 / 410-420: every name of namelist(),
\* in order, ZIP_DEFLATED; the document entry gets new_document.
RebuildPackage_document_only(zip, new_document) ==
    LET IsDoc(e) == e.name = DOCUMENT_XML
        docs == SelectSeq(zip, IsDoc)
    IN  [i \in 1..Len(docs) |-> Entry(docs[i].name, new_document, "deflated")]

\* docx_zip.read(item) succeeds for every entry the loop of lines 159-168 copies
CanCopyEntries(zip) ==
    \A i \in 1..Len(zip) : zip[i].name # DOCUMENT_XML => zip[i].data # Damaged

RebuildPackage(zip, new_document) ==
    [i \in 1..Len(zip) |->
        IF zip[i].name = DOCUMENT_XML
        THEN Entry(zip[i].name, new_document, "deflated")
        ELSE Entry(zip[i].name, ZipRead(zip, zip[i].name), "deflated")]

-----------------------------------------------------------------------------
(* flatten_textboxes *)

\* values of the variables a specification does not use
IdleFlatten ==
    /\ docx_bytes = Null /\ body = Null /\ idx = 0 /\ seen_texts = {}
    /\ new_body_children = <<>> /\ paragraphs_extracted = 0
    /\ textboxes_removed = 0 /\ duplicates_removed = 0
IdleRepl ==
    /\ replacements = <<>> /\ key = 0 /\ document_xml = Null
    /\ total_replacements = 0
IdlePdf ==
    /\ pdf_bytes = Null /\ doc = Null /\ page_num = 0
    /\ text_instances = <<>> /\ page_log = <<>>
IdleFont == font_name = Null /\ flags = 0
IdleConv == caller = Null /\ exc = Null

InitFlatten ==
    /\ call = "flatten_textboxes"
    /\ pc = "start"
    /\ result = Null
    /\ docx_bytes \in FlattenInputs
    /\ body = Null /\ idx = 0 /\ seen_texts = {}
    /\ new_body_children = <<>> /\ paragraphs_extracted = 0
    /\ textboxes_removed = 0 /\ duplicates_removed = 0
    /\ IdleRepl /\ IdlePdf /\ IdleFont /\ IdleConv

otherThanFlat == <<call, replVars, pdfVars, fontVars, convVars>>

\* line 68: the input is not an archive, zipfile.BadZipFile is raised
FlattenBadZipFile ==
    /\ call = "flatten_textboxes" /\ pc = "start"
    /\ ~IsZipFile(docx_bytes)
    /\ exc' = "BadZipFile"
    /\ pc' = "raised"
    /\ UNCHANGED <<result, flatVars, call, caller, replVars, pdfVars, fontVars>>

\* line 78: the document is not well-formed XML, ET.ParseError is raised
FlattenParseError ==
    /\ call = "flatten_textboxes" /\ pc = "start"
    /\ IsZipFile(docx_bytes)
    /\ HasEntry(docx_bytes, DOCUMENT_XML)
    /\ ~WellFormed(ZipRead(docx_bytes, DOCUMENT_XML))
    /\ exc' = "ParseError"
    /\ pc' = "raised"
    /\ UNCHANGED <<result, flatVars, call, caller, replVars, pdfVars, fontVars>>

\* line 168: an entry cannot be read while the package is written
FlattenReadError ==
    /\ call = "flatten_textboxes" /\ pc = "rebuild"
    /\ ~CanCopyEntries(docx_bytes)
    /\ exc' = "BadZipFile"
    /\ pc' = "raised"
    /\ UNCHANGED <<result, flatVars, call, caller, replVars, pdfVars, fontVars>>

\* lines 71-75: no word/document.xml, the input is returned
FlattenNoDocument ==
    /\ call = "flatten_textboxes" /\ pc = "start"
    /\ IsZipFile(docx_bytes)
    /\ ~HasEntry(docx_bytes, DOCUMENT_XML)
    /\ result' = docx_bytes
    /\ pc' = "done"
    /\ UNCHANGED <<flatVars, otherThanFlat>>

\* lines 78-84: no w:body, the input is returned
FlattenNoBody ==
    /\ call = "flatten_textboxes" /\ pc = "start"
    /\ IsZipFile(docx_bytes)
    /\ HasEntry(docx_bytes, DOCUMENT_XML)
    /\ WellFormed(ZipRead(docx_bytes, DOCUMENT_XML))
    /\ ~ParseXml(ZipRead(docx_bytes, DOCUMENT_XML)).has_body
    /\ result' = docx_bytes
    /\ pc' = "done"
    /\ UNCHANGED <<flatVars, otherThanFlat>>

\* lines 78-94: parse, find the body, initialise the loop
FlattenParse ==
    /\ call = "flatten_textboxes" /\ pc = "start"
    /\ IsZipFile(docx_bytes)
    /\ HasEntry(docx_bytes, DOCUMENT_XML)
    /\ WellFormed(ZipRead(docx_bytes, DOCUMENT_XML))
    /\ ParseXml(ZipRead(docx_bytes, DOCUMENT_XML)).has_body
    /\ body' = ParseXml(ZipRead(docx_bytes, DOCUMENT_XML)).children
    /\ idx' = 1
    /\ seen_texts' = {}
    /\ new_body_children' = <<>>
    /\ paragraphs_extracted' = 0
    /\ textboxes_removed' = 0
    /\ duplicates_removed' = 0
    /\ pc' = "loop"
    /\ UNCHANGED <<docx_bytes, result, otherThanFlat>>

AppendChild_front(children, child) == <<child>> \o children

\* new_body_children.append(child)
AppendChild(children, child) == Append(children, child)

RECURSIVE ExtractParas(_, _)
\* lines 104-117 over the paragraphs of the text boxes of one body child;
\* acc is [seen, out, extracted, dups]
ExtractParas(paras, acc) ==
    IF paras = <<>> THEN acc
    ELSE LET para == Head(paras)
             para_text == get_paragraph_text(para)
         IN  IF para_text # "" /\ para_text \in acc.seen
             THEN ExtractParas(Tail(paras), [acc EXCEPT !.dups = @ + 1])
             ELSE ExtractParas(Tail(paras),
                      [acc EXCEPT
                          !.seen = IF para_text # "" THEN @ \cup {para_text} ELSE @,
                          !.out = AppendChild(@, ClonePara(para)),
                          !.extracted = @ + 1])

\* lines 98-119: a body paragraph that holds text boxes
FlattenTextboxParagraph ==
    /\ call = "flatten_textboxes" /\ pc = "loop" /\ idx <= Len(body)
    /\ IsP(body[idx])
    /\ FindAllTxbx(body[idx]) # <<>>
    /\ LET acc == ExtractParas(ParasOfBoxes(FindAllTxbx(body[idx])),
                      [seen |-> seen_texts, out |-> new_body_children,
                       extracted |-> paragraphs_extracted,
                       dups |-> duplicates_removed])
       IN  /\ seen_texts' = acc.seen
           /\ new_body_children' = acc.out
           /\ paragraphs_extracted' = acc.extracted
           /\ duplicates_removed' = acc.dups
    /\ textboxes_removed' = textboxes_removed + 1
    /\ idx' = idx + 1
    /\ UNCHANGED <<pc, result, docx_bytes, body, otherThanFlat>>

\* lines 120-128: a body paragraph without text boxes
FlattenRegularParagraph ==
    /\ call = "flatten_textboxes" /\ pc = "loop" /\ idx <= Len(body)
    /\ IsP(body[idx])
    /\ FindAllTxbx(body[idx]) = <<>>
    /\ LET para_text == get_paragraph_text(body[idx])
       IN  IF para_text # "" /\ para_text \in seen_texts
           THEN /\ duplicates_removed' = duplicates_removed + 1
                /\ UNCHANGED <<seen_texts, new_body_children>>
           ELSE /\ seen_texts' = IF para_text # "" THEN seen_texts \cup {para_text}
                                 ELSE seen_texts
                /\ new_body_children' = AppendChild(new_body_children, body[idx])
                /\ UNCHANGED duplicates_removed
    /\ idx' = idx + 1
    /\ UNCHANGED <<pc, result, docx_bytes, body, paragraphs_extracted,
                   textboxes_removed, otherThanFlat>>

\* lines 129-131: any other body child is kept
FlattenOther ==
    /\ call = "flatten_textboxes" /\ pc = "loop" /\ idx <= Len(body)
    /\ ~IsP(body[idx])
    /\ new_body_children' = AppendChild(new_body_children, body[idx])
    /\ idx' = idx + 1
    /\ UNCHANGED <<pc, result, docx_bytes, body, seen_texts, paragraphs_extracted,
                   textboxes_removed, duplicates_removed, otherThanFlat>>

MustRewrite_always == TRUE

\* the condition of line 133
MustRewrite == paragraphs_extracted > 0 \/ duplicates_removed > 0

\* body.find('w:sectPr'): the first sectPr child, <<>> for None
FindSectPr(children) ==
    LET s == SelectSeq(children, IsSectPr) IN IF s = <<>> THEN <<>> ELSE <<Head(s)>>

RewrittenBody_no_sectPr(children, new_children) == new_children

\* lines 138-150: the body after clear, append all, append sect_pr
RewrittenBody(children, new_children) == new_children \o FindSectPr(children)

\* lines 133-152
FlattenRewriteBody ==
    /\ call = "flatten_textboxes" /\ pc = "loop" /\ idx > Len(body)
    /\ MustRewrite
    /\ body' = RewrittenBody(body, new_body_children)
    /\ pc' = "rebuild"
    /\ UNCHANGED <<result, docx_bytes, idx, seen_texts, new_body_children,
                   paragraphs_extracted, textboxes_removed, duplicates_removed,
                   otherThanFlat>>

\* lines 153-154
FlattenKeepBody ==
    /\ call = "flatten_textboxes" /\ pc = "loop" /\ idx > Len(body)
    /\ ~MustRewrite
    /\ pc' = "rebuild"
    /\ UNCHANGED <<result, flatVars, otherThanFlat>>

\* lines 156-174
FlattenRebuild ==
    /\ call = "flatten_textboxes" /\ pc = "rebuild"
    /\ CanCopyEntries(docx_bytes)
    /\ result' = RebuildPackage(docx_bytes,
                     SerializeXml([has_body |-> TRUE, children |-> body]))
    /\ pc' = "done"
    /\ UNCHANGED <<flatVars, otherThanFlat>>

NextFlatten ==
    \/ FlattenBadZipFile
    \/ FlattenParseError
    \/ FlattenReadError
    \/ FlattenNoDocument
    \/ FlattenNoBody
    \/ FlattenParse
    \/ FlattenTextboxParagraph
    \/ FlattenRegularParagraph
    \/ FlattenOther
    \/ FlattenRewriteBody
    \/ FlattenKeepBody
    \/ FlattenRebuild

SpecFlatten == InitFlatten /\ [][NextFlatten]_vars

-----------------------------------------------------------------------------
(* Properties of flatten_textboxes *)

\* the call returned a package it wrote (lines 156-174), not its argument
FlattenWrote ==
    /\ call = "flatten_textboxes" /\ pc = "done"
    /\ HasEntry(docx_bytes, DOCUMENT_XML)
    /\ ParseXml(ZipRead(docx_bytes, DOCUMENT_XML)).has_body

InBody == ParseXml(ZipRead(docx_bytes, DOCUMENT_XML)).children
OutBody == ParseXml(ZipRead(result, DOCUMENT_XML)).children

HoldsTextbox(child) == IsP(child) /\ FindAllTxbx(child) # <<>>

\* two body paragraphs with the same non-empty extracted text
HasEqualParagraphs(children) ==
    \E i, j \in 1..Len(children) :
        /\ i < j
        /\ IsP(children[i]) /\ IsP(children[j])
        /\ get_paragraph_text(children[i]) # ""
        /\ get_paragraph_text(children[i]) = get_paragraph_text(children[j])

\* nothing to extract and nothing to remove
AlreadyFlat(children) ==
    /\ \A i \in 1..Len(children) : ~HoldsTextbox(children[i])
    /\ ~HasEqualParagraphs(children)

\* the entries other than the document keep their names, order and data
OtherEntriesKept(old, new) ==
    /\ namelist(new) = namelist(old)
    /\ \A i \in 1..Len(old) :
          old[i].name # DOCUMENT_XML => new[i].data = old[i].data

\* C1 as stated: for a package whose body holds no text box and no two
\* paragraphs of equal non-empty text, the returned bytes are the input bytes.
C1_BytesIdentical ==
    (FlattenWrote /\ AlreadyFlat(InBody)) => result = docx_bytes

\* C1 amended: for such a package the returned package holds the same document
\* tree and the same other entries as the input; it is written anew (the
\* document re-serialized, every entry deflated), so its bytes are those of the
\* input only when the input already had exactly that form.
C1_TreeIdentical ==
    (FlattenWrote /\ AlreadyFlat(InBody)) =>
        /\ OutBody = InBody
        /\ OtherEntriesKept(docx_bytes, result)
        /\ ZipRead(result, DOCUMENT_XML).form = "et"
        /\ \A i \in 1..Len(result) : result[i].compress_type = "deflated"

C1_Witness ==
    /\ FlattenWrote /\ AlreadyFlat(InBody)
    /\ Len(InBody) >= 2
    /\ \E i \in 1..Len(InBody) : IsSectPr(InBody[i])
    /\ ZipRead(docx_bytes, DOCUMENT_XML).form = "other"

\* C2: after flatten_textboxes no two paragraphs of the output body have the
\* same non-empty extracted text.
C2_NoEqualParagraphs ==
    FlattenWrote => ~HasEqualParagraphs(OutBody)

\* the ids of the children of the input that are in a list
RECURSIVE IsSubseq(_, _)
IsSubseq(a, b) ==
    IF a = <<>> THEN TRUE
    ELSE IF b = <<>> THEN FALSE
    ELSE IF Head(a) = Head(b) THEN IsSubseq(Tail(a), Tail(b))
    ELSE IsSubseq(a, Tail(b))

InSeq(x, seq) == \E i \in 1..Len(seq) : seq[i] = x

\* the children of the input that are not paragraphs, and its paragraphs
\* without text boxes that the output still holds, in input order
KeptOfInput ==
    LET Kept(c) == ~IsP(c) \/ (~HoldsTextbox(c) /\ InSeq(c, OutBody))
    IN  SelectSeq(InBody, Kept)

\* C3: every non-paragraph child of the input body is in the output body, and
\* the kept paragraphs without text boxes and the non-paragraph children are
\* in the output in the order they had in the input.
C3_OrderKept ==
    FlattenWrote =>
        /\ \A i \in 1..Len(InBody) : ~IsP(InBody[i]) => InSeq(InBody[i], OutBody)
        /\ IsSubseq(KeptOfInput, OutBody)

C3_Witness ==
    /\ FlattenWrote /\ MustRewrite
    /\ Len(InBody) = 3
    /\ InBody[1].tag = "tbl" /\ HoldsTextbox(InBody[2]) /\ InBody[3].tag = "tbl"
    /\ Len(OutBody) > 3

\* C4: when the body is rewritten and the input body holds a sectPr, the last
\* child of the output body is that sectPr.
C4_SectPrLast ==
    (FlattenWrote /\ MustRewrite /\ FindSectPr(InBody) # <<>>) =>
        /\ OutBody # <<>>
        /\ OutBody[Len(OutBody)] = FindSectPr(InBody)[1]

C4_Witness ==
    /\ FlattenWrote /\ MustRewrite
    /\ Len(InBody) = 3
    /\ IsSectPr(InBody[1]) /\ ~IsSectPr(InBody[3])
    /\ IsSectPr(OutBody[Len(OutBody)])

-----------------------------------------------------------------------------
(* replace_text_in_docx.  The document is the raw text of word/document.xml; *)
(* the pattern of line 381 is matched on that text, character by character.  *)

MaxSegs == 2            \* pieces of a paragraph of an input document
MaxKeys == 2            \* pairs of a replacement mapping

Char(s, i) == SubSeq(s, i, i)

StartsWithAt(s, i, pre) ==
    i + Len(pre) - 1 <= Len(s) /\ SubSeq(s, i, i + Len(pre) - 1) = pre

\* position of the first c at or after i, 0 when there is none
FindChar(s, c, i) ==
    LET S == { j \in i..Len(s) : Char(s, j) = c }
    IN  IF S = {} THEN 0 ELSE CHOOSE j \in S : \A l \in S : j <= l

RECURSIVE ReplaceAll(_, _, _)
\* str.replace(old, new)
ReplaceAll(s, old, new) ==
    LET i == FirstIndex(s, old)
    IN  IF i = 0 THEN s
        ELSE SubSeq(s, 1, i - 1) \o new
                \o ReplaceAll(SubSeq(s, i + Len(old), Len(s)), old, new)

ReplaceFirst_all(s, old, new) == ReplaceAll(s, old, new)

\* str.replace(old, new, 1)
ReplaceFirst(s, old, new) ==
    LET i == FirstIndex(s, old)
    IN  IF i = 0 THEN s
        ELSE SubSeq(s, 1, i - 1) \o new \o SubSeq(s, i + Len(old), Len(s))

escape_xml(text) ==
    ReplaceAll(ReplaceAll(ReplaceAll(ReplaceAll(ReplaceAll(text,
        "&", "&amp;"), "<", "&lt;"), ">", "&gt;"), "\"", "&quot;"), "'", "&apos;")

IsSpace(c) == c \in {" ", "\t", "\n", "\r"}

\* The match of the pattern of line 381 that starts at position i of s:
\* group 1 is s[i..open_end], group 2 s[open_end+1..close_start-1], group 3
\* the "</w:t>" at close_start.  ok is FALSE when there is no match at i.
MatchAt(s, i, old_escaped) ==
    LET gt == FindChar(s, ">", i + 4)
        lt == IF gt = 0 THEN 0 ELSE FindChar(s, "<", gt + 1)
        ok == /\ StartsWithAt(s, i, "<w:t")
              /\ gt # 0
              /\ (gt = i + 4 \/ IsSpace(Char(s, i + 4)))
              /\ lt # 0
              /\ StartsWithAt(s, lt, "</w:t>")
              /\ Contains(SubSeq(s, gt + 1, lt - 1), old_escaped)
    IN  [ok |-> ok, open_end |-> gt, close_start |-> lt]

\* position of the first occurrence of sub in s that starts at or after i,
\* 0 when there is none
FindFrom(s, sub, i) ==
    LET S == { j \in i..(Len(s) - Len(sub) + 1) : SubSeq(s, j, j + Len(sub) - 1) = sub }
    IN  IF S = {} THEN 0 ELSE CHOOSE j \in S : \A l \in S : j <= l

\* the number of occurrences of sub in s, from left to right without overlap
RECURSIVE CountOccurrences(_, _)
CountOccurrences(s, sub) ==
    LET i == FirstIndex(s, sub)
    IN  IF i = 0 THEN 0
        ELSE 1 + CountOccurrences(SubSeq(s, i + Len(sub), Len(s)), sub)

ReSub_whole_text(s, i, old_escaped, new_escaped) ==
    [out |-> ReplaceAll(s, old_escaped, new_escaped),
     n |-> CountOccurrences(s, old_escaped)]

RECURSIVE ReSub(_, _, _, _)
\* re.sub(pattern, replace_in_element, s) from position i on: the new text and
\* the number of calls of replace_in_element (lines 381-396).  The scan goes
\* from one "<w:t" to the next: no match starts anywhere else.
ReSub(s, i, old_escaped, new_escaped) ==
    LET j == FindFrom(s, "<w:t", i)
    IN  IF j = 0 THEN [out |-> SubSeq(s, i, Len(s)), n |-> 0]
        ELSE LET m == MatchAt(s, j, old_escaped)
             IN  IF m.ok
                 THEN LET rest == ReSub(s, m.close_start + 6, old_escaped, new_escaped)
                          open_tag == SubSeq(s, j, m.open_end)
                          content == SubSeq(s, m.open_end + 1, m.close_start - 1)
                          new_content == ReplaceFirst(content, old_escaped, new_escaped)
                      IN  [out |-> SubSeq(s, i, j - 1) \o open_tag \o new_content
                                      \o "</w:t>" \o rest.out,
                           n |-> rest.n + 1]
                 ELSE LET rest == ReSub(s, j + 1, old_escaped, new_escaped)
                      IN  [out |-> SubSeq(s, i, j) \o rest.out, n |-> rest.n]

\* The pieces a paragraph of an input document is made of.
Segments ==
    { "<w:r><w:t>A</w:t></w:r>",
      "<w:r><w:t>B</w:t></w:r>",
      "<w:r><w:t xml:space=\"preserve\">A BA</w:t></w:r>",
      "<w:r><w:t>A&amp;B</w:t></w:r>",
      "<w:r><w:tab/><w:t/></w:r>",
      "<w:r><w:instrText>AB</w:instrText></w:r>" }

RECURSIVE Concat(_)
Concat(strs) == IF strs = <<>> THEN "" ELSE Head(strs) \o Concat(Tail(strs))

Documents ==
    { "<w:body><w:p>" \o Concat(f) \o "</w:p></w:body>" :
        f \in UNION { [1..n -> Segments] : n \in 0..MaxSegs } }

Pair(old, new) == [old |-> old, new |-> new]

\* The (source, target) pairs a mapping is made of.
Pairs ==
    { Pair("A", "B"), Pair("B", "C"), Pair("AB", ""), Pair("A", "A"),
      Pair("", "Z"), Pair("&", "<") }

\* the mappings: the keys of a dict are distinct, its items are in insertion order
Mappings ==
    UNION { { f \in [1..n -> Pairs] :
                \A i, j \in 1..n : i # j => f[i].old # f[j].old }
            : n \in 0..MaxKeys }

\* the mappings given to replace_text_in_pdf: one more, whose target is longer
\* than its source
PdfMappings == Mappings \cup { << Pair("A", "BC") >> }

\* the packages given to replace_text_in_docx
DocxPackage(xml) ==
    << Entry("[Content_Types].xml", "types-blob", "stored"),
       Entry(DOCUMENT_XML, xml, "stored"),
       Entry("word/styles.xml", "styles-blob", "stored") >>

NoDocumentPackage ==
    << Entry("[Content_Types].xml", "types-blob", "stored"),
       Entry("word/styles.xml", "styles-blob", "stored") >>

InitDocx ==
    /\ call = "replace_text_in_docx"
    /\ pc = "start"
    /\ result = Null
    /\ docx_bytes \in { DocxPackage(d) : d \in Documents } \cup { NoDocumentPackage }
    /\ replacements \in Mappings
    /\ key = 0 /\ document_xml = Null /\ total_replacements = 0
    /\ body = Null /\ idx = 0 /\ seen_texts = {}
    /\ new_body_children = <<>> /\ paragraphs_extracted = 0
    /\ textboxes_removed = 0 /\ duplicates_removed = 0
    /\ IdlePdf /\ IdleFont /\ IdleConv

otherThanDocx ==
    <<call, docx_bytes, replacements, body, idx, seen_texts, new_body_children,
      paragraphs_extracted, textboxes_removed, duplicates_removed, pdfVars, fontVars,
      convVars>>

\* lines 346-348: an empty mapping, the input is returned
DocxNoReplacements ==
    /\ call = "replace_text_in_docx" /\ pc = "start"
    /\ replacements = <<>>
    /\ result' = docx_bytes
    /\ pc' = "done"
    /\ UNCHANGED <<key, document_xml, total_replacements, otherThanDocx>>

\* lines 356-361: no word/document.xml, the input is returned
DocxNoDocument ==
    /\ call = "replace_text_in_docx" /\ pc = "start"
    /\ replacements # <<>>
    /\ ~HasEntry(docx_bytes, DOCUMENT_XML)
    /\ result' = docx_bytes
    /\ pc' = "done"
    /\ UNCHANGED <<key, document_xml, total_replacements, otherThanDocx>>

\* lines 353-364: read the document text
DocxOpen ==
    /\ call = "replace_text_in_docx" /\ pc = "start"
    /\ replacements # <<>>
    /\ HasEntry(docx_bytes, DOCUMENT_XML)
    /\ document_xml' = ZipRead(docx_bytes, DOCUMENT_XML)
    /\ total_replacements' = 0
    /\ key' = 1
    /\ pc' = "keys"
    /\ UNCHANGED <<result, otherThanDocx>>

\* the condition of line 368 (and 516)
SkipsPair(pair) == pair.old = "" \/ pair.old = pair.new

\* lines 368-369: the pair is passed over
DocxSkipKey ==
    /\ call = "replace_text_in_docx" /\ pc = "keys" /\ key <= Len(replacements)
    /\ SkipsPair(replacements[key])
    /\ key' = key + 1
    /\ UNCHANGED <<pc, result, document_xml, total_replacements, otherThanDocx>>

\* lines 371-400: one pair applied to the document text
DocxApplyKey ==
    /\ call = "replace_text_in_docx" /\ pc = "keys" /\ key <= Len(replacements)
    /\ ~SkipsPair(replacements[key])
    /\ LET sub == ReSub(document_xml, 1, escape_xml(replacements[key].old),
                        escape_xml(replacements[key].new))
       IN  /\ document_xml' = sub.out
           /\ total_replacements' = total_replacements + sub.n
    /\ key' = key + 1
    /\ UNCHANGED <<pc, result, otherThanDocx>>

ReturnsInput_never(total) == FALSE

\* the condition of lines 402 and 592
ReturnsInput(total) == total = 0

\* lines 402-405: nothing was replaced, the input is returned
DocxNoMatches ==
    /\ call = "replace_text_in_docx" /\ pc = "keys" /\ key > Len(replacements)
    /\ ReturnsInput(total_replacements)
    /\ result' = docx_bytes
    /\ pc' = "done"
    /\ UNCHANGED <<key, document_xml, total_replacements, otherThanDocx>>

\* lines 407-425: the package is written with the new document text
DocxRebuild ==
    /\ call = "replace_text_in_docx" /\ pc = "keys" /\ key > Len(replacements)
    /\ ~ReturnsInput(total_replacements)
    /\ result' = RebuildPackage(docx_bytes, document_xml)
    /\ pc' = "done"
    /\ UNCHANGED <<key, document_xml, total_replacements, otherThanDocx>>

NextDocx ==
    \/ DocxNoReplacements
    \/ DocxNoDocument
    \/ DocxOpen
    \/ DocxSkipKey
    \/ DocxApplyKey
    \/ DocxNoMatches
    \/ DocxRebuild

SpecDocx == InitDocx /\ [][NextDocx]_vars

-----------------------------------------------------------------------------
(* replace_text_in_pdf.  A page is the sequence of its glyphs, in the order   *)
(* they were written: [x, ch, style], one text line, every glyph one unit     *)
(* wide at column x.  A box is [x0, x1]: the columns x0 <= x < x1.  The       *)
(* PyMuPDF calls are modelled by what the library documents for them.         *)

MaxPages == 1           \* pages of an input PDF

Style(font, fl, size, color) ==
    [font |-> font, flags |-> fl, size |-> size, color |-> color]

Glyph(x, ch, style) == [x |-> x, ch |-> ch, style |-> style]

\* a line of text written from column 1 in one style
TextLine(str, style) == [i \in 1..Len(str) |-> Glyph(i, Char(str, i), style)]

PageShapes ==
    { TextLine("AB", Style("TimesNewRoman-Bold", 0, 12, 255)),
      TextLine("AA", Style("Arial", 2, 10, 0)),
      TextLine("C&B", Style("Courier", 16, 9, 65280)),
      <<>> }

PdfInputs ==
    { [form |-> fm, pages |-> f] :
        fm \in {"saved", "other"},
        f \in UNION { [1..n -> PageShapes] : n \in 0..MaxPages } }

\* the glyphs of a page in reading order (by column; written first, read first)
RECURSIVE ReadingOrder(_)
ReadingOrder(page) ==
    IF page = <<>> THEN <<>>
    ELSE LET first == CHOOSE i \in 1..Len(page) :
                          \A j \in 1..Len(page) :
                              page[i].x < page[j].x \/ (page[i].x = page[j].x /\ i <= j)
             rest == [k \in 1..(Len(page) - 1) |->
                          IF k < first THEN page[k] ELSE page[k + 1]]
         IN  <<page[first]>> \o ReadingOrder(rest)

RECURSIVE SearchFrom(_, _, _)
\* the boxes of the occurrences of needle in the glyphs gs (in reading order)
\* from index i on; an occurrence is a run of glyphs in adjacent columns
SearchFrom(gs, needle, i) ==
    IF i + Len(needle) - 1 > Len(gs) THEN <<>>
    ELSE IF \A k \in 1..Len(needle) :
                /\ Lower(gs[i + k - 1].ch) = Lower(Char(needle, k))
                /\ k > 1 => gs[i + k - 1].x = gs[i + k - 2].x + 1
         THEN <<[x0 |-> gs[i].x, x1 |-> gs[i + Len(needle) - 1].x + 1]>>
                  \o SearchFrom(gs, needle, i + Len(needle))
         ELSE SearchFrom(gs, needle, i + 1)

\* page.search_for(needle): the boxes of its occurrences (letter case ignored)
search_for(page, needle) == SearchFrom(ReadingOrder(page), needle, 1)

\* page.get_text("dict", clip=inst): the styles of the glyphs inside the box,
\* in reading order
StylesInClip(page, inst) ==
    LET Inside(g) == inst.x0 <= g.x /\ g.x < inst.x1
        gs == SelectSeq(ReadingOrder(page), Inside)
    IN  [i \in 1..Len(gs) |-> gs[i].style]

\* lines 549-557: an integer colour is unpacked to its three channels
\* (each then divided by 255)
UnpackColor(color) ==
    <<(color \div 65536) % 256, (color \div 256) % 256, color % 256>>

\* lines 532-566: the style of the first span of the box, or the default
SampleStyle(page, inst) ==
    LET spans == StylesInClip(page, inst)
    IN  IF spans = <<>>
        THEN [fontname |-> "helv", fontsize |-> 11, color |-> <<0, 0, 0>>]
        ELSE [fontname |-> map_to_base14_font(spans[1].font, spans[1].flags),
              fontsize |-> spans[1].size,
              color |-> UnpackColor(spans[1].color)]

\* page.add_redact_annot(inst) and page.apply_redactions(): every glyph that
\* overlaps the box is removed
ApplyRedaction(page, inst) ==
    LET Outside(g) == ~(inst.x0 <= g.x /\ g.x < inst.x1)
    IN  SelectSeq(page, Outside)

\* the colour of a span as the library reports it: one integer
PackColor(rgb) == rgb[1] * 65536 + rgb[2] * 256 + rgb[3]

\* the name the library reports for a built-in font
Base14Name(fontname) ==
    CASE fontname = "helv" -> "Helvetica"
      [] fontname = "heit" -> "Helvetica-Oblique"
      [] fontname = "hebo" -> "Helvetica-Bold"
      [] fontname = "hebi" -> "Helvetica-BoldOblique"
      [] fontname = "tiro" -> "Times-Roman"
      [] fontname = "tiit" -> "Times-Italic"
      [] fontname = "tibo" -> "Times-Bold"
      [] fontname = "tibi" -> "Times-BoldItalic"
      [] fontname = "cour" -> "Courier"
      [] fontname = "coit" -> "Courier-Oblique"
      [] fontname = "cobo" -> "Courier-Bold"
      [] fontname = "cobi" -> "Courier-BoldOblique"
      [] fontname = "symb" -> "Symbol"
      [] fontname = "zadb" -> "ZapfDingbats"

\* page.insert_text(point, text, fontname, fontsize, color): the glyphs of text
\* are written from the column of the point on
InsertText(page, x, text, st) ==
    page \o [i \in 1..Len(text) |->
                Glyph(x + i - 1, Char(text, i),
                      Style(Base14Name(st.fontname), 0, st.fontsize,
                            PackColor(st.color)))]

InitPdf ==
    /\ call = "replace_text_in_pdf"
    /\ pc = "start"
    /\ result = Null
    /\ pdf_bytes \in PdfInputs
    /\ replacements \in PdfMappings
    /\ key = 0 /\ total_replacements = 0 /\ document_xml = Null
    /\ doc = Null /\ page_num = 0 /\ text_instances = <<>> /\ page_log = <<>>
    /\ IdleFlatten /\ IdleFont /\ IdleConv

otherThanPdf ==
    <<call, pdf_bytes, replacements, document_xml, flatVars, fontVars, convVars>>

\* lines 505-507: an empty mapping, the input is returned
PdfNoReplacements ==
    /\ call = "replace_text_in_pdf" /\ pc = "start"
    /\ replacements = <<>>
    /\ result' = pdf_bytes
    /\ pc' = "done"
    /\ UNCHANGED <<key, total_replacements, doc, page_num, text_instances,
                   page_log, otherThanPdf>>

\* lines 511-513: fitz.open
PdfOpen ==
    /\ call = "replace_text_in_pdf" /\ pc = "start"
    /\ replacements # <<>>
    /\ doc' = pdf_bytes.pages
    /\ total_replacements' = 0
    /\ key' = 1
    /\ pc' = "keys"
    /\ UNCHANGED <<result, page_num, text_instances, page_log, otherThanPdf>>

\* lines 516-517: the pair is passed over
PdfSkipKey ==
    /\ call = "replace_text_in_pdf" /\ pc = "keys" /\ key <= Len(replacements)
    /\ SkipsPair(replacements[key])
    /\ key' = key + 1
    /\ UNCHANGED <<pc, result, total_replacements, doc, page_num, text_instances,
                   page_log, otherThanPdf>>

\* line 520: the pages are gone through for the pair
PdfStartKey ==
    /\ call = "replace_text_in_pdf" /\ pc = "keys" /\ key <= Len(replacements)
    /\ ~SkipsPair(replacements[key])
    /\ page_num' = 1
    /\ pc' = "pages"
    /\ UNCHANGED <<key, result, total_replacements, doc, text_instances,
                   page_log, otherThanPdf>>

\* lines 521-524: the search of one page
PdfSearchPage ==
    /\ call = "replace_text_in_pdf" /\ pc = "pages" /\ page_num <= Len(doc)
    /\ text_instances' = search_for(doc[page_num], replacements[key].old)
    /\ page_log' = Append(page_log,
           [op |-> "search", page |-> page_num, text |-> replacements[key].old,
            found |-> search_for(doc[page_num], replacements[key].old)])
    /\ pc' = "instances"
    /\ UNCHANGED <<key, result, total_replacements, doc, page_num, otherThanPdf>>

InstanceOps_insert_first(n, inst, new_text, st) ==
    << [op |-> "insert", page |-> n, x |-> inst.x0, text |-> new_text, style |-> st],
       [op |-> "redact", page |-> n, box |-> inst],
       [op |-> "apply", page |-> n] >>

\* lines 571-587: the page operations for one occurrence, in the order of the
\* code: add_redact_annot, apply_redactions, insert_text
InstanceOps(n, inst, new_text, st) ==
    << [op |-> "redact", page |-> n, box |-> inst],
       [op |-> "apply", page |-> n],
       [op |-> "insert", page |-> n, x |-> inst.x0, text |-> new_text, style |-> st] >>

RECURSIVE ApplyRedactions(_, _)
\* page.apply_redactions(): every pending annotation is applied
ApplyRedactions(page, annots) ==
    IF annots = <<>> THEN page
    ELSE ApplyRedactions(ApplyRedaction(page, Head(annots)), Tail(annots))

RECURSIVE RunOps(_, _, _)
\* the page after the operations ops; annots are the redaction annotations
\* added and not yet applied
RunOps(page, annots, ops) ==
    IF ops = <<>> THEN page
    ELSE LET o == Head(ops)
         IN  CASE o.op = "redact" -> RunOps(page, Append(annots, o.box), Tail(ops))
               [] o.op = "apply" -> RunOps(ApplyRedactions(page, annots), <<>>, Tail(ops))
               [] o.op = "insert" ->
                      RunOps(InsertText(page, o.x, o.text, o.style), annots, Tail(ops))

\* lines 526-590: one occurrence: sample the style, redact, insert, count
PdfReplaceInstance ==
    /\ call = "replace_text_in_pdf" /\ pc = "instances" /\ text_instances # <<>>
    /\ LET inst == Head(text_instances)
           st == SampleStyle(doc[page_num], inst)
           ops == InstanceOps(page_num, inst, replacements[key].new, st)
       IN  /\ doc' = [doc EXCEPT ![page_num] = RunOps(doc[page_num], <<>>, ops)]
           /\ page_log' = page_log \o ops
    /\ text_instances' = Tail(text_instances)
    /\ total_replacements' = total_replacements + 1
    /\ UNCHANGED <<pc, key, result, page_num, otherThanPdf>>

\* the occurrences of the page are done: the next page
PdfNextPage ==
    /\ call = "replace_text_in_pdf" /\ pc = "instances" /\ text_instances = <<>>
    /\ page_num' = page_num + 1
    /\ pc' = "pages"
    /\ UNCHANGED <<key, result, total_replacements, doc, text_instances,
                   page_log, otherThanPdf>>

\* the pages are done: the next pair
PdfNextKey ==
    /\ call = "replace_text_in_pdf" /\ pc = "pages" /\ page_num > Len(doc)
    /\ key' = key + 1
    /\ pc' = "keys"
    /\ UNCHANGED <<result, total_replacements, doc, page_num, text_instances,
                   page_log, otherThanPdf>>

\* lines 592-595: nothing was replaced, the input is returned
PdfNoMatches ==
    /\ call = "replace_text_in_pdf" /\ pc = "keys" /\ key > Len(replacements)
    /\ ReturnsInput(total_replacements)
    /\ result' = pdf_bytes
    /\ pc' = "done"
    /\ UNCHANGED <<key, total_replacements, doc, page_num, text_instances,
                   page_log, otherThanPdf>>

\* lines 597-604: doc.tobytes(garbage=4, deflate=True)
PdfSave ==
    /\ call = "replace_text_in_pdf" /\ pc = "keys" /\ key > Len(replacements)
    /\ ~ReturnsInput(total_replacements)
    /\ result' = [form |-> "saved", pages |-> doc]
    /\ pc' = "done"
    /\ UNCHANGED <<key, total_replacements, doc, page_num, text_instances,
                   page_log, otherThanPdf>>

NextPdf ==
    \/ PdfNoReplacements
    \/ PdfOpen
    \/ PdfSkipKey
    \/ PdfStartKey
    \/ PdfSearchPage
    \/ PdfReplaceInstance
    \/ PdfNextPage
    \/ PdfNextKey
    \/ PdfNoMatches
    \/ PdfSave

SpecPdf == InitPdf /\ [][NextPdf]_vars

-----------------------------------------------------------------------------
(* map_to_base14_font as a call *)

FlagBits == 5           \* the flags are drawn from 0 .. 2^FlagBits - 1

FontNames ==
    { "AAAAAA+TimesNewRoman-Bold", "Arial", "Symbol", "ZapfDingbats",
      "Courier-Oblique", "CourierNewPS-BoldItalicMT", "Helvetica-BoldOblique",
      "Arial-Black", "Georgia-Italic", "DejaVuSansMono", "Symbol-BoldItalic",
      "Verdana", "HEAVY", "Cambria", "LiberationSerif-BoldItalic", "" }

InitFont ==
    /\ call = "map_to_base14_font"
    /\ pc = "start"
    /\ result = Null
    /\ font_name \in FontNames
    /\ flags \in 0..(2 ^ FlagBits - 1)
    /\ IdleFlatten /\ IdleRepl /\ IdlePdf /\ IdleConv

\* lines 440-484
FontReturn ==
    /\ call = "map_to_base14_font" /\ pc = "start"
    /\ result' = map_to_base14_font(font_name, flags)
    /\ pc' = "done"
    /\ UNCHANGED <<call, flatVars, replVars, pdfVars, fontVars, convVars>>

NextFont == FontReturn

SpecFont == InitFont /\ [][NextFont]_vars

-----------------------------------------------------------------------------
(* pdf_to_docx.  LibreOffice is outside the program: its run either fails,   *)
(* leaves no output file, or leaves a file of any content.                    *)

\* the PDF is only handed to LibreOffice
ConvertInputs == { p \in PdfInputs : p.pages = <<>> }

InitConvert ==
    /\ call = "pdf_to_docx"
    /\ pc = "start"
    /\ result = Null
    /\ pdf_bytes \in ConvertInputs
    /\ doc = Null /\ page_num = 0 /\ text_instances = <<>> /\ page_log = <<>>
    /\ IdleFlatten /\ IdleRepl /\ IdleFont /\ IdleConv

\* lines 203-220: LibreOffice exits with a non-zero code
ConvLibreOfficeFailed ==
    /\ call = "pdf_to_docx" /\ pc = "start"
    /\ exc' = "RuntimeError: conversion failed"
    /\ pc' = "raised"
    /\ UNCHANGED <<call, result, caller, flatVars, replVars, pdfVars, fontVars>>

\* lines 222-231: no .docx file in the output directory
ConvNoOutput ==
    /\ call = "pdf_to_docx" /\ pc = "start"
    /\ exc' = "RuntimeError: output file not found"
    /\ pc' = "raised"
    /\ UNCHANGED <<call, result, caller, flatVars, replVars, pdfVars, fontVars>>

\* lines 233-238: the output file is read and flatten_textboxes is called
ConvCallFlatten ==
    /\ call = "pdf_to_docx" /\ pc = "start"
    /\ docx_bytes' \in FlattenInputs
    /\ caller' = "pdf_to_docx"
    /\ call' = "flatten_textboxes"
    /\ UNCHANGED <<pc, result, exc, body, idx, seen_texts, new_body_children,
                   paragraphs_extracted, textboxes_removed, duplicates_removed,
                   replVars, pdfVars, fontVars>>

\* lines 238-239: flatten_textboxes returned, its value is returned
ConvReturnFlattened ==
    /\ call = "flatten_textboxes" /\ caller = "pdf_to_docx" /\ pc = "done"
    /\ call' = "pdf_to_docx"
    /\ caller' = Null
    /\ UNCHANGED <<pc, result, exc, flatVars, replVars, pdfVars, fontVars>>

OnFlattenFailure_empty(converted) == <<>>

\* line 242: the value returned by the except clause
OnFlattenFailure(converted) == converted

\* lines 240-242: flatten_textboxes raised, the exception is caught
ConvCatch ==
    /\ call = "flatten_textboxes" /\ caller = "pdf_to_docx" /\ pc = "raised"
    /\ call' = "pdf_to_docx"
    /\ caller' = Null
    /\ result' = OnFlattenFailure(docx_bytes)
    /\ pc' = "done"
    /\ UNCHANGED <<exc, flatVars, replVars, pdfVars, fontVars>>

NextConvert ==
    \/ ConvLibreOfficeFailed
    \/ ConvNoOutput
    \/ ConvCallFlatten
    \/ ConvReturnFlattened
    \/ ConvCatch
    \/ NextFlatten

SpecConvert == InitConvert /\ [][NextConvert]_vars

-----------------------------------------------------------------------------
(* Specifications of more than one function *)

InitPackages == InitFlatten \/ InitDocx
NextPackages == NextFlatten \/ NextDocx
\* the two functions that write a package
SpecPackages == InitPackages /\ [][NextPackages]_vars

InitReplace == InitDocx \/ InitPdf
NextReplace == NextDocx \/ NextPdf
\* the two replacers
SpecReplace == InitReplace /\ [][NextReplace]_vars

Init == InitFlatten \/ InitDocx \/ InitPdf \/ InitFont \/ InitConvert
Next == NextConvert \/ NextDocx \/ NextPdf \/ NextFont
Spec == Init /\ [][Next]_vars

-----------------------------------------------------------------------------
(* Properties of replace_text_in_docx, replace_text_in_pdf                   *)

\* The text s cut at its tags: <<text, tag, text, tag, ..., text>>; the texts
\* (odd places) may be empty, a tag runs from "<" to the next ">".
RECURSIVE Tokens(_, _)
Tokens(s, i) ==
    LET lt == FindChar(s, "<", i)
        gt == IF lt = 0 THEN 0 ELSE FindChar(s, ">", lt)
    IN  IF gt = 0 THEN <<SubSeq(s, i, Len(s))>>
        ELSE <<SubSeq(s, i, lt - 1), SubSeq(s, lt, gt)>> \o Tokens(s, gt + 1)

\* the start tag of a w:t element
IsLeafStart(tag) ==
    /\ StartsWithAt(tag, 1, "<w:t")
    /\ Char(tag, 5) = ">" \/ IsSpace(Char(tag, 5))
    /\ Char(tag, Len(tag) - 1) # "/"

\* the places of the token sequence that are the content of a w:t element
LeafContents(toks) ==
    { q \in 2..(Len(toks) - 1) :
        q % 2 = 1 /\ IsLeafStart(toks[q - 1]) /\ toks[q + 1] = "</w:t>" }

Applies(pair) == pair.old # "" /\ pair.old # pair.new

\* content with its first occurrence of old replaced by new
WithFirstReplaced(content, old, new) ==
    LET first == CHOOSE i \in 1..Len(content) :
                     /\ StartsWithAt(content, i, old)
                     /\ \A j \in 1..(i - 1) : ~StartsWithAt(content, j, old)
    IN  SubSeq(content, 1, first - 1) \o new
            \o SubSeq(content, first + Len(old), Len(content))

DocxWrote ==
    /\ call = "replace_text_in_docx" /\ pc = "done"
    /\ document_xml # Null /\ total_replacements > 0

\* C5: when flatten_textboxes or replace_text_in_docx writes a package, the
\* output has the entry names of the input in the input's order, and every
\* entry but word/document.xml has the data it had in the input.
C5_OtherEntriesKept ==
    (FlattenWrote \/ DocxWrote) => OtherEntriesKept(docx_bytes, result)

C5_Witness ==
    /\ DocxWrote
    /\ Len(result) = 3
    /\ ZipRead(result, DOCUMENT_XML) # ZipRead(docx_bytes, DOCUMENT_XML)

\* C6: a step of the loop over the pairs that applies a pair replaces, in
\* every w:t element whose content holds the escaped source, the first
\* occurrence of it by the escaped target and nothing else, and adds the number
\* of those elements to the count.
C6_FirstOccurrencePerElement ==
    [][ (/\ call = "replace_text_in_docx" /\ pc = "keys"
         /\ key' = key + 1
         /\ Applies(replacements[key]))
        =>
        LET old == escape_xml(replacements[key].old)
            new == escape_xml(replacements[key].new)
            toks == Tokens(document_xml, 1)
            hit == { q \in LeafContents(toks) : Contains(toks[q], old) }
        IN  /\ document_xml' =
                  Concat([q \in 1..Len(toks) |->
                            IF q \in hit THEN WithFirstReplaced(toks[q], old, new)
                            ELSE toks[q]])
            /\ total_replacements' = total_replacements + Cardinality(hit) ]_vars

C6_Witness ==
    /\ call = "replace_text_in_docx" /\ pc = "keys" /\ key = 2
    /\ replacements[1] = Pair("A", "B")
    /\ Contains(document_xml, ">B BA</w:t>")
    /\ Contains(document_xml, "<w:t>B</w:t>")
    /\ total_replacements = 2

\* C7 as stated: the replacements are computed against the original text: a
\* step that applies a pair changes a w:t element only if the content that
\* element had in the input holds the escaped source of the pair.
C7_AgainstOriginalText ==
    [][ (/\ call = "replace_text_in_docx" /\ pc = "keys"
         /\ key' = key + 1
         /\ Applies(replacements[key]))
        =>
        LET old == escape_xml(replacements[key].old)
            orig == Tokens(ZipRead(docx_bytes, DOCUMENT_XML), 1)
            before == Tokens(document_xml, 1)
            after == Tokens(document_xml', 1)
        IN  \A q \in 1..Len(orig) :
                (q <= Len(before) /\ q <= Len(after) /\ before[q] # after[q])
                    => Contains(orig[q], old) ]_vars

\* C8: the document text of the output differs from that of the input only
\* inside the content of w:t elements that held the escaped source of an
\* applied pair: every tag and every other text is the same.
C8_OnlyLeafContentChanges ==
    DocxWrote =>
        LET orig == Tokens(ZipRead(docx_bytes, DOCUMENT_XML), 1)
            out == Tokens(ZipRead(result, DOCUMENT_XML), 1)
        IN  /\ Len(out) = Len(orig)
            /\ \A q \in 1..Len(orig) :
                  out[q] # orig[q] =>
                      /\ q \in LeafContents(orig)
                      /\ \E k \in 1..Len(replacements) :
                            /\ Applies(replacements[k])
                            /\ Contains(orig[q], escape_xml(replacements[k].old))

\* a source split across two adjacent w:t elements, with a change elsewhere
C8_Witness ==
    /\ DocxWrote
    /\ \E k \in 1..Len(replacements) : replacements[k].old = "AB"
    /\ Contains(ZipRead(docx_bytes, DOCUMENT_XML),
                "<w:t>A</w:t></w:r><w:r><w:t>B</w:t>")
    /\ Contains(ZipRead(result, DOCUMENT_XML),
                "<w:t>A</w:t></w:r><w:r><w:t>C</w:t>")

\* no applied pair has its source in the input
NoKeyOccurs ==
    \A k \in 1..Len(replacements) :
        Applies(replacements[k]) =>
            IF call = "replace_text_in_docx"
            THEN HasEntry(docx_bytes, DOCUMENT_XML) =>
                    LET orig == Tokens(ZipRead(docx_bytes, DOCUMENT_XML), 1)
                    IN  \A q \in LeafContents(orig) :
                            ~Contains(orig[q], escape_xml(replacements[k].old))
            ELSE \A n \in 1..Len(pdf_bytes.pages) :
                    search_for(pdf_bytes.pages[n], replacements[k].old) = <<>>

ReplaceDone == call \in {"replace_text_in_docx", "replace_text_in_pdf"} /\ pc = "done"

TheInput == IF call = "replace_text_in_docx" THEN docx_bytes ELSE pdf_bytes

\* C9: both replacers return their input when nothing is substituted: for an
\* empty mapping (then without opening or searching the document), when every
\* pair is passed over, and when no source occurs in the document.
C9_InputReturned ==
    (ReplaceDone /\ NoKeyOccurs) =>
        /\ result = TheInput
        /\ replacements = <<>> => (document_xml = Null /\ doc = Null /\ page_log = <<>>)

C9_Witness ==
    /\ call = "replace_text_in_pdf" /\ pc = "done"
    /\ NoKeyOccurs
    /\ \E k \in 1..Len(replacements) : Applies(replacements[k])
    /\ pdf_bytes.form = "other"
    /\ Len(pdf_bytes.pages) = 1 /\ pdf_bytes.pages[1] # <<>>
    /\ Len(page_log) >= 1

-----------------------------------------------------------------------------
(* Properties of map_to_base14_font *)

Base14 ==
    { "helv", "heit", "hebo", "hebi", "tiro", "tiit", "tibo", "tibi",
      "cour", "coit", "cobo", "cobi", "symb", "zadb" }

NameHas(keywords) == \E x \in keywords : Contains(Lower(font_name), x)

BoldAsked == NameHas({"bold", "black", "heavy"}) \/ (flags \div 16) % 2 = 1
ItalicAsked == NameHas({"italic", "oblique"}) \/ (flags \div 2) % 2 = 1

TimesName == NameHas({"times", "tiro", "serif", "roman", "georgia", "palatino", "cambria"})
CourierName == NameHas({"courier", "cour", "mono", "consola", "menlo", "fixed"})
SymbolName == NameHas({"symbol", "symb"})
DingbatName == NameHas({"zapf", "dingbat", "zadb"})

\* the id of a family in a style
StyledId(family, bold, italic) ==
    LET ids == CASE family = "sans" -> <<"helv", "hebo", "heit", "hebi">>
                 [] family = "serif" -> <<"tiro", "tibo", "tiit", "tibi">>
                 [] family = "mono" -> <<"cour", "cobo", "coit", "cobi">>
    IN  ids[1 + (IF bold THEN 1 ELSE 0) + (IF italic THEN 2 ELSE 0)]

\* C10: the result is one of the 14 ids; a symbol or dingbat name gives symb or
\* zadb whatever the flags; any other name gives the id of its family in the
\* style (bold, italic) asked by the name or the flag bits 16 and 2, the family
\* being sans-serif exactly when the name matches none of the four keyword sets.
C10_Base14Id ==
    (call = "map_to_base14_font" /\ pc = "done") =>
        /\ result \in Base14
        /\ (SymbolName \/ DingbatName) => result \in {"symb", "zadb"}
        /\ ~(SymbolName \/ DingbatName) =>
              \E family \in {"sans", "serif", "mono"} :
                  /\ result = StyledId(family, BoldAsked, ItalicAsked)
                  /\ family = "sans" <=> ~(TimesName \/ CourierName)
                  /\ family = "serif" => TimesName
                  /\ family = "mono" => CourierName

C10_Witness ==
    /\ call = "map_to_base14_font" /\ pc = "done"
    /\ font_name = "Arial-Black" /\ flags = 2
    /\ result = "hebi"

-----------------------------------------------------------------------------
(* More properties of flatten_textboxes *)

\* the body child numbered i of the input is a child of the output body
KeptInOutput(i) == \E j \in 1..Len(OutBody) : OutBody[j].id = i

\* C12 as stated: no body paragraph of the input that holds a text box is in
\* the output body, whatever its text boxes hold.
C12_OuterParagraphReplaced ==
    FlattenWrote =>
        \A i \in 1..Len(InBody) : HoldsTextbox(InBody[i]) => ~KeptInOutput(i)

\* how many children of the body the test holds for
CountOf(children, Test(_)) == Len(SelectSeq(children, Test))

\* C14 as stated: the output body has as many section-properties children as
\* the input body, and no body child of the input is in it more than once.
C14_NoChildTwice ==
    FlattenWrote =>
        /\ CountOf(OutBody, IsSectPr) = CountOf(InBody, IsSectPr)
        /\ \A i \in 1..Len(InBody) :
              LET IsIt(e) == e.id = i IN CountOf(OutBody, IsIt) <= 1

\* C16 as stated: the output body of flatten_textboxes has no paragraph that
\* still holds a text box (so that a second flattening finds nothing to do).
C16_OutputIsFlat ==
    FlattenWrote => \A j \in 1..Len(OutBody) : ~HoldsTextbox(OutBody[j])

-----------------------------------------------------------------------------
(* Properties of replace_text_in_pdf *)

\* the positions of page_log that hold an operation of that name
LogOps(name) == { q \in 1..Len(page_log) : page_log[q].op = name }

\* the last position of the part of page_log that starts with the search at q
SegmentEnd(q) ==
    LET later == { r \in LogOps("search") : r > q }
    IN  IF later = {} THEN Len(page_log)
        ELSE (CHOOSE r \in later : \A r2 \in later : r <= r2) - 1

RECURSIVE SumFound(_)
\* the number of occurrences the searches at the positions qs returned
SumFound(qs) ==
    IF qs = {} THEN 0
    ELSE LET q == CHOOSE r \in qs : TRUE
         IN  Len(page_log[q].found) + SumFound(qs \ {q})

\* C13: every occurrence a search returned gets one redaction of its box,
\* applied, and then one insertion of the target at the left edge of the box,
\* in this order and nothing else; the counter is the number of occurrences
\* handled, and at the end the number of occurrences all searches returned.
C13_RedactThenInsert ==
    call = "replace_text_in_pdf" =>
        /\ \A q \in LogOps("redact") :
              /\ q + 2 <= Len(page_log)
              /\ page_log[q + 1].op = "apply"
              /\ page_log[q + 2].op = "insert"
              /\ page_log[q + 2].x = page_log[q].box.x0
              /\ page_log[q + 2].page = page_log[q].page
        /\ \A q \in LogOps("apply") : q > 1 /\ page_log[q - 1].op = "redact"
        /\ \A q \in LogOps("insert") : q > 2 /\ page_log[q - 2].op = "redact"
        /\ \A q \in LogOps("search") :
              LET found == page_log[q].found
                  handled == IF SegmentEnd(q) = Len(page_log) /\ pc = "instances"
                             THEN Len(found) - Len(text_instances)
                             ELSE Len(found)
              IN  /\ SegmentEnd(q) = q + 3 * handled
                  /\ \E k \in 1..Len(replacements) :
                        /\ Applies(replacements[k])
                        /\ replacements[k].old = page_log[q].text
                        /\ \A m \in 1..handled :
                              /\ page_log[q + 3 * m - 2].op = "redact"
                              /\ page_log[q + 3 * m - 2].box = found[m]
                              /\ page_log[q + 3 * m - 2].page = page_log[q].page
                              /\ page_log[q + 3 * m].text = replacements[k].new
        /\ total_replacements = Cardinality(LogOps("insert"))
        /\ pc = "done" => total_replacements = SumFound(LogOps("search"))

\* two occurrences on one page, then one more for a later pair
C13_Witness ==
    /\ call = "replace_text_in_pdf" /\ pc = "done"
    /\ total_replacements = 3
    /\ \E q \in LogOps("search") : Len(page_log[q].found) = 2
    /\ Cardinality(LogOps("search")) = 2

\* the glyphs the insertion logged at position q wrote are on the page
StillOnPage(q, page) ==
    LET o == page_log[q]
        written == InsertText(<<>>, o.x, o.text, o.style)
    IN  \A i \in 1..Len(written) : \E j \in 1..Len(page) : page[j] = written[i]

\* C15 as stated: the text inserted for an occurrence is still on its page
\* when the call finishes: no later redaction removes it and no later pair
\* replaces it.
C15_InsertedTextStays ==
    (call = "replace_text_in_pdf" /\ pc = "done" /\ total_replacements > 0) =>
        \A q \in LogOps("insert") : StillOnPage(q, result.pages[page_log[q].page])

-----------------------------------------------------------------------------
(* Properties of pdf_to_docx *)

\* the inputs on which flatten_textboxes raises
FlattenFails(bytes) ==
    \/ ~IsZipFile(bytes)
    \/ /\ IsZipFile(bytes)
       /\ HasEntry(bytes, DOCUMENT_XML)
       /\ \/ ~WellFormed(ZipRead(bytes, DOCUMENT_XML))
          \/ /\ ParseXml(ZipRead(bytes, DOCUMENT_XML)).has_body
             /\ ~CanCopyEntries(bytes)

\* C11: once LibreOffice has written a document, no exception leaves
\* pdf_to_docx; when flatten_textboxes raised (the document is no archive, its
\* XML is malformed, an entry cannot be read) pdf_to_docx returns the
\* converted document as it was read.
C11_FlattenErrorCaught ==
    /\ (call = "pdf_to_docx" /\ pc = "raised") =>
          exc \notin {"BadZipFile", "ParseError"}
    /\ (call = "pdf_to_docx" /\ pc = "done") =>
          /\ FlattenFails(docx_bytes) <=> exc # Null
          /\ exc # Null => result = docx_bytes

C11_Witness ==
    /\ call = "pdf_to_docx" /\ pc = "done"
    /\ exc = "BadZipFile"
    /\ IsZipFile(docx_bytes)
    /\ result = docx_bytes

=============================================================================
